---------------------------- MODULE Spec2Model ----------------------------
(***************************************************************************)
(* Model of bioasq/28.01.26/parse_pubmed_local.py: the streaming reader    *)
(* (iter_records_from_xml_gz), the record extractor (parse_* functions),   *)
(* the shard writer (xml_gz_to_jsonl) and the loop of main over shards.    *)
(*                                                                         *)
(* Strings are sequences of atoms.  An atom is one whitespace character    *)
(* (" " or "\n") or one whitespace-free word, so that str.strip, str.join  *)
(* and truthiness are computed, not assumed.  The value None and the empty *)
(* string are both the empty sequence: the code only ever tests them with  *)
(* `x.text`, `x or ""` and `if p`, which do not tell them apart.           *)
(*                                                                         *)
(* A document is read as the sequence of the elements that close directly  *)
(* under the root.  The "end" events of an element's descendants (PMID,    *)
(* Article, ...) reach the else branch of the loop with fewer than 1000    *)
(* children and change nothing, so one step of the reader is the "end"     *)
(* event of one such element, taken with its completed subtree.            *)
(***************************************************************************)
EXTENDS Integers, Sequences, FiniteSets, TLC

\* ------------------------------------------------------------------ bounds
MaxElems == 3          \* elements read from one shard in Spec
MaxDeleteKids == 2     \* PMID children of one DeleteCitation
MaxSegments == 2       \* AbstractText segments of one Abstract
MaxFiles == 2          \* shards discovered by one run in SpecRun
MaxPmidKids == 1       \* direct PMID children of one MedlineCitation in SpecElem
MaxArticleIds == 2     \* ArticleId children of one ArticleIdList in SpecElem
MemElems == 120        \* elements read from the shard in SpecMem
MemKids == 250         \* SpecMem: the children of each untouched sibling element
CitationEvery == 4     \* SpecMem: every CitationEvery-th element is a citation

\* ---------------------------------------------------------------- strings
WS == {" ", "\n"}

RECURSIVE LStrip(_)
LStrip(s) == IF s # <<>> /\ Head(s) \in WS THEN LStrip(Tail(s)) ELSE s

RECURSIVE RStrip(_)
RStrip(s) ==
    IF s # <<>> /\ s[Len(s)] \in WS THEN RStrip(SubSeq(s, 1, Len(s) - 1)) ELSE s

\* str.strip()
Strip(s) == RStrip(LStrip(s))

\* sep.join(parts)
RECURSIVE Join(_, _)
Join(sep, parts) ==
    IF parts = <<>> THEN <<>>
    ELSE IF Len(parts) = 1 THEN parts[1]
    ELSE parts[1] \o sep \o Join(sep, Tail(parts))

\* [p for p in parts if p]
RECURSIVE NonEmpty(_)
NonEmpty(parts) ==
    IF parts = <<>> THEN <<>>
    ELSE IF Head(parts) = <<>> THEN NonEmpty(Tail(parts))
    ELSE <<Head(parts)>> \o NonEmpty(Tail(parts))

\* [t.strip() for t in chunks if t and t.strip()]
RECURSIVE StripChunks(_)
StripChunks(chunks) ==
    IF chunks = <<>> THEN <<>>
    ELSE IF Strip(Head(chunks)) = <<>> THEN StripChunks(Tail(chunks))
    ELSE <<Strip(Head(chunks))>> \o StripChunks(Tail(chunks))

\* An attribute value ("" when the attribute is absent) as a string.
AttrStr(a) == IF a = "" THEN <<>> ELSE <<a>>

\* ------------------------------------------------------------ _stringify
\* A node is [present, chunks]: chunks is what node.itertext() yields.
NoNode == [present |-> FALSE, chunks |-> <<>>]
Node(chunks) == [present |-> TRUE, chunks |-> chunks]

\* _stringify with pubmed_parser not importable (pp = None).
Stringify(node) ==
    IF ~node.present THEN <<>>
    ELSE Strip(Join(<<" ">>, StripChunks(node.chunks)))


\* --------------------------------------------------------------- elements
\* A MedlineCitation element with its completed subtree:
\*   pmids    the texts of its direct PMID children, in order
\*   idList   the first PubmedData/ArticleIdList: its ArticleId children
\*   article  the first Article child: ArticleTitle and Abstract
\*   mesh     the first MeshHeadingList: its MeshHeading children
\*   keywords the texts of the KeywordList/Keyword descendants
NoIdList == [present |-> FALSE, ids |-> <<>>]
IdList(ids) == [present |-> TRUE, ids |-> ids]
ArticleId(t, text) == [idType |-> t, text |-> text]

NoAbstract == [present |-> FALSE, chunks |-> <<>>, segs |-> <<>>]
\* An Abstract without AbstractText children: chunks is its own itertext().
PlainAbstract(chunks) == [present |-> TRUE, chunks |-> chunks, segs |-> <<>>]
\* An Abstract with AbstractText children (segments).
Abstract(segs) == [present |-> TRUE, chunks |-> <<>>, segs |-> segs]
Segment(label, nlm, chunks) == [label |-> label, nlm |-> nlm, chunks |-> chunks]

NoArticle == [present |-> FALSE, title |-> NoNode, abstract |-> NoAbstract]
Article(title, abstract) == [present |-> TRUE, title |-> title, abstract |-> abstract]

NoMesh == [present |-> FALSE, headings |-> <<>>]
MeshList(hs) == [present |-> TRUE, headings |-> hs]
Heading(hasDesc, ui, text) == [hasDesc |-> hasDesc, ui |-> ui, text |-> text]

Citation(pmids, idList, article, mesh, kws) ==
    [tag |-> "MedlineCitation", pmids |-> pmids, idList |-> idList,
     article |-> article, mesh |-> mesh, keywords |-> kws, nkids |-> 0]

\* A DeleteCitation element: pmids are the texts of its PMID children.
DeleteCitation(pmids) ==
    [tag |-> "DeleteCitation", pmids |-> pmids, idList |-> NoIdList,
     article |-> NoArticle, mesh |-> NoMesh, keywords |-> <<>>, nkids |-> 0]

\* Any other element, with nkids childless children.
Other(nkids) ==
    [tag |-> "Other", pmids |-> <<>>, idList |-> NoIdList,
     article |-> NoArticle, mesh |-> NoMesh, keywords |-> <<>>, nkids |-> nkids]

\* The number of element nodes of the subtree of e, e included.
Size(e) ==
    1 + Len(e.pmids) + e.nkids + Len(e.keywords)
      + (IF e.idList.present THEN 2 + Len(e.idList.ids) ELSE 0)
      + (IF e.mesh.present THEN 1 + 2 * Len(e.mesh.headings) ELSE 0)
      + (IF e.article.present
           THEN 1 + (IF e.article.title.present THEN 1 ELSE 0)
                  + (IF e.article.abstract.present
                       THEN 1 + Len(e.article.abstract.segs) ELSE 0)
           ELSE 0)

\* len(elem): the number of children of e.
NumChildren(e) ==
    Len(e.pmids) + e.nkids
      + (IF e.idList.present THEN 1 ELSE 0)
      + (IF e.mesh.present THEN 1 ELSE 0)
      + (IF e.article.present THEN 1 ELSE 0)
      + (IF e.keywords # <<>> THEN 1 ELSE 0)

\* -------------------------------------------------------------- extractor
\* parse_mesh_terms
RECURSIVE MeshParts(_)
MeshParts(hs) ==
    IF hs = <<>> THEN <<>>
    ELSE LET h == Head(hs)
             txt == Strip(h.text)
         IN  (IF ~h.hasDesc THEN <<>>
              ELSE IF h.ui # "" /\ txt # <<>> THEN << <<h.ui, ":">> \o txt >>
              ELSE IF txt # <<>> THEN <<txt>>
              ELSE <<>>) \o MeshParts(Tail(hs))

ParseMeshTerms(medline) ==
    IF ~medline.mesh.present THEN <<>>
    ELSE Join(<<";", " ">>, MeshParts(medline.mesh.headings))

IsPubmedId(a) == a.idType = "pubmed"

\* A plausible slip: the identifier is returned without .strip().
ParsePmidNoStrip(medline) ==
    IF medline.pmids # <<>> /\ medline.pmids[1] # <<>>
      THEN medline.pmids[1]
      ELSE LET pub == SelectSeq(medline.idList.ids, IsPubmedId)
           IN  IF medline.idList.present /\ pub # <<>>
                 THEN pub[1].text ELSE <<>>

\* parse_pmid
ParsePmid(medline) ==
    IF medline.pmids # <<>> /\ medline.pmids[1] # <<>>
      THEN Strip(medline.pmids[1])
      ELSE LET pub == SelectSeq(medline.idList.ids, IsPubmedId)
           IN  IF medline.idList.present /\ pub # <<>> /\ pub[1].text # <<>>
                 THEN Strip(pub[1].text) ELSE <<>>

\* parse_keywords with pubmed_parser not importable (pp = None).
ParseKeywords(medline) == StripChunks(medline.keywords)

\* The label of one AbstractText: Label, or else NlmCategory.
SegLabel(a) == IF a.label # "" THEN AttrStr(a.label) ELSE AttrStr(a.nlm)

\* The parts list built by the loop over two or more AbstractText segments.
RECURSIVE AbstractParts(_)
AbstractParts(segs) ==
    IF segs = <<>> THEN <<>>
    ELSE LET a == Head(segs)
             label == SegLabel(a)
         IN  (IF label # <<>> /\ label # <<"UNASSIGNED">> THEN <<label>> ELSE <<>>)
               \o <<Stringify(Node(a.chunks))>>
               \o AbstractParts(Tail(segs))

\* A plausible slip: empty parts are joined too.
ParseAbstractKeepEmpty(article) ==
    IF ~article.present THEN <<>>
    ELSE IF article.abstract.present /\ article.abstract.segs # <<>>
      THEN IF Len(article.abstract.segs) > 1
             THEN Strip(Join(<<"\n">>, AbstractParts(article.abstract.segs)))
             ELSE Stringify(Node(article.abstract.segs[1].chunks))
      ELSE Stringify([present |-> article.abstract.present,
                      chunks |-> article.abstract.chunks])

\* parse_title_abstract: the abstract
ParseAbstract(article) ==
    IF ~article.present THEN <<>>
    ELSE IF article.abstract.present /\ article.abstract.segs # <<>>
      THEN IF Len(article.abstract.segs) > 1
             THEN Strip(Join(<<"\n">>, NonEmpty(AbstractParts(article.abstract.segs))))
             ELSE Stringify(Node(article.abstract.segs[1].chunks))
      ELSE Stringify([present |-> article.abstract.present,
                      chunks |-> article.abstract.chunks])

\* parse_title_abstract: the title
ParseTitle(article) ==
    IF ~article.present THEN <<>> ELSE Stringify(article.title)

\* The dict of one output record.
Record(pmid, title, abstract, mesh, kws, deleted) ==
    [pmid |-> pmid, docno |-> pmid, title |-> title, abstract |-> abstract,
     mesh_terms |-> mesh, keywords |-> kws, is_deleted |-> deleted]

\* A plausible slip: the `if not pmid: return None` test is missing.
ParseArticleRecordNoDrop(medline) ==
    << Record(ParsePmid(medline), ParseTitle(medline.article),
              ParseAbstract(medline.article), ParseMeshTerms(medline),
              ParseKeywords(medline), FALSE) >>

\* parse_article_record: <<>> for None, <<rec>> for a record.
ParseArticleRecord(medline) ==
    IF ParsePmid(medline) = <<>> THEN <<>>
    ELSE << Record(ParsePmid(medline), ParseTitle(medline.article),
                   ParseAbstract(medline.article), ParseMeshTerms(medline),
                   ParseKeywords(medline), FALSE) >>

\* A plausible slip: one tombstone per PMID child, blank or not.
RECURSIVE TombstonesAll(_)
TombstonesAll(pmids) ==
    IF pmids = <<>> THEN <<>>
    ELSE << Record(Strip(Head(pmids)), <<>>, <<>>, <<>>, <<>>, TRUE) >>
           \o TombstonesAll(Tail(pmids))

\* The DeleteCitation branch: the tombstones of elem.findall("PMID").
RECURSIVE Tombstones(_)
Tombstones(pmids) ==
    IF pmids = <<>> THEN <<>>
    ELSE (IF Head(pmids) # <<>> /\ Strip(Head(pmids)) # <<>>
            THEN << Record(Strip(Head(pmids)), <<>>, <<>>, <<>>, <<>>, TRUE) >>
            ELSE <<>>)
           \o Tombstones(Tail(pmids))

\* The records the loop body yields at the "end" event of elem.
Yielded(elem) ==
    IF elem.tag = "MedlineCitation" THEN ParseArticleRecord(elem)
    ELSE IF elem.tag = "DeleteCitation" THEN Tombstones(elem.pmids)
    ELSE <<>>

\* The bound of the memory-hygiene branch.
SiblingBound == 1000

\* Whether the loop body calls elem.clear() at the "end" event of elem.
Cleared(elem) ==
    IF elem.tag \in {"MedlineCitation", "DeleteCitation"} THEN TRUE
    ELSE NumChildren(elem) > SiblingBound

\* The nodes of elem still attached to its parent after its "end" event:
\* clear() empties the element and leaves it in its parent.
Retained(elem) == IF Cleared(elem) THEN 1 ELSE Size(elem)

\* ----------------------------------------------------------------- writer
\* json.dumps(rec, ensure_ascii=False) + "\n": one line, the keys in the
\* order the dict was built in.
JsonLine(rec) ==
    << <<"pmid", rec.pmid>>, <<"docno", rec.docno>>, <<"title", rec.title>>,
       <<"abstract", rec.abstract>>, <<"mesh_terms", rec.mesh_terms>>,
       <<"keywords", rec.keywords>>, <<"is_deleted", rec.is_deleted>> >>

\* What a consumer reads back from one line.
ParseLine(line) ==
    [pmid |-> line[1][2], docno |-> line[2][2], title |-> line[3][2],
     abstract |-> line[4][2], mesh_terms |-> line[5][2],
     keywords |-> line[6][2], is_deleted |-> line[7][2]]

\* The lines the for loop of xml_gz_to_jsonl writes for the records recs.
RECURSIVE Lines(_)
Lines(recs) ==
    IF recs = <<>> THEN <<>> ELSE <<JsonLine(Head(recs))>> \o Lines(Tail(recs))

\* A plausible slip: the new lines land before the ones already written.
WrittenPrepend(old, recs) == Lines(recs) \o old

\* The temporary file after the lines of recs are written to it.
Written(old, recs) == old \o Lines(recs)

\* A file of the output directory: absent, or its lines.
Absent == [exists |-> FALSE, lines |-> <<>>]
File(lines) == [exists |-> TRUE, lines |-> lines]

\* out_dir / gz_path.name.replace(".xml.gz", ".jsonl"), for shard f
JsonlPath(f) == <<f, ".jsonl">>

\* A plausible slip: the records are written to the final path itself.
TmpPathInPlace(path) == path

\* jsonl_path.with_suffix(".jsonl.partial")
TmpPath(path) == <<path[1], ".jsonl.partial">>

\* ---------------------------------------------------------------- state
VARIABLES
    files,         \* main: the shards found, sorted (shard k is file k)
    skipExisting,  \* main: args.skip_existing
    idx,           \* main: the position of the for loop in files
    pc,            \* "loop", "reading" (inside xml_gz_to_jsonl), "done", "crashed"
    error,         \* the exception that ended the run, "" if none
    status,        \* per shard: "pending", "skipped", "ok", "failed"
    fs,            \* the output directory: path -> file
    prior,         \* the output directory as the run found it
    doc,           \* the elements of the current shard read so far
    rootLen,       \* len(root): the children attached to the open root
    held           \* the element nodes in the parsed tree, root included

vars == <<files, skipExisting, idx, pc, error, status, fs, prior, doc, rootLen, held>>

Shards == 1 .. MaxFiles
Paths == {JsonlPath(f) : f \in Shards} \cup {TmpPath(JsonlPath(f)) : f \in Shards}

\* The lines a prior run left behind.
PriorLines == Lines(<< Record(<<"9">>, <<>>, <<>>, <<>>, <<>>, FALSE) >>)

\* jsonl_path.exists() and jsonl_path.stat().st_size > 0
ExistsNonEmpty(file) == file.exists /\ file.lines # <<>>

\* The state when the for loop of main starts, for n shards found and the
\* output directory dir.
InitRun(n, dir) ==
    /\ files = [k \in 1 .. n |-> k]
    /\ skipExisting \in BOOLEAN
    /\ idx = 1
    /\ pc = "loop"
    /\ error = ""
    /\ status = [f \in Shards |-> "pending"]
    /\ fs = dir
    /\ prior = dir
    /\ doc = <<>>
    /\ rootLen = 0
    /\ held = 0

\* main: `continue` on a shard whose output exists and is not empty.
SkipShard ==
    /\ pc = "loop"
    /\ idx <= Len(files)
    /\ skipExisting /\ ExistsNonEmpty(fs[JsonlPath(files[idx])])
    /\ status' = [status EXCEPT ![files[idx]] = "skipped"]
    /\ idx' = idx + 1
    /\ UNCHANGED <<files, skipExisting, pc, error, fs, prior, doc, rootLen, held>>

\* main calls xml_gz_to_jsonl: the temporary file is opened for writing
\* (created or truncated) and the reader opens the document's root.
OpenShard ==
    /\ pc = "loop"
    /\ idx <= Len(files)
    /\ ~(skipExisting /\ ExistsNonEmpty(fs[JsonlPath(files[idx])]))
    /\ fs' = [fs EXCEPT ![TmpPath(JsonlPath(files[idx]))] = File(<<>>)]
    /\ doc' = <<>>
    /\ rootLen' = 0
    /\ held' = 1
    /\ pc' = "reading"
    /\ UNCHANGED <<files, skipExisting, idx, error, status, prior>>

\* The reader has more to read: the shard is open and fewer than limit
\* elements of it were read.
CanRead(limit) == pc = "reading" /\ Len(doc) < limit

\* One iteration of the loops of iter_records_from_xml_gz and xml_gz_to_jsonl:
\* the "end" event of elem, the records it yields written as lines, and
\* elem.clear() where the loop body calls it.
ReadElement(elem) ==
    /\ pc = "reading"
    /\ fs' = [fs EXCEPT ![TmpPath(JsonlPath(files[idx]))] =
                File(Written(@.lines, Yielded(elem)))]
    /\ doc' = Append(doc, elem)
    /\ rootLen' = rootLen + 1
    /\ held' = held + Retained(elem)
    /\ UNCHANGED <<files, skipExisting, idx, pc, error, status, prior>>

\* The recover option in effect for etree.iterparse(fh, events=("end",)):
\* the XMLParser(recover=True, huge_tree=True) built one line above is never
\* handed to it, and iterparse's own recover defaults to off for XML.
IterparseRecover == FALSE

\* An exception leaves xml_gz_to_jsonl (the with block closes the temporary
\* file, tmp.replace is not reached) and then main, which has no handler.
Raise(kind) ==
    /\ pc' = "crashed"
    /\ error' = kind
    /\ status' = [status EXCEPT ![files[idx]] = "failed"]
    /\ UNCHANGED <<files, skipExisting, idx, fs, prior, doc, rootLen, held>>

\* The reader meets recoverable malformed markup (an unbalanced tag, an
\* invalid entity).
MeetDefect ==
    /\ pc = "reading"
    /\ IF IterparseRecover THEN UNCHANGED vars ELSE Raise("XMLSyntaxError")

\* A fatal failure while the shard is read or written: a truncated gzip
\* stream (EOFError from fh) or a failing out.write (OSError).
FatalKinds == {"EOFError", "OSError"}
FatalFailure ==
    /\ pc = "reading"
    /\ \E kind \in FatalKinds : Raise(kind)

\* The document ends: the root's own "end" event (the else branch), the
\* generator is exhausted, the with block closes the temporary file and
\* tmp.replace(jsonl_path) renames it; main goes on to the next shard.
EndOfDocument ==
    /\ pc = "reading"
    /\ fs' = [fs EXCEPT ![TmpPath(JsonlPath(files[idx]))] = Absent,
                        ![JsonlPath(files[idx])] = fs[TmpPath(JsonlPath(files[idx]))]]
    /\ held' = IF rootLen > SiblingBound THEN 1 ELSE held
    /\ rootLen' = IF rootLen > SiblingBound THEN 0 ELSE rootLen
    /\ status' = [status EXCEPT ![files[idx]] = "ok"]
    /\ idx' = idx + 1
    /\ pc' = "loop"
    /\ UNCHANGED <<files, skipExisting, error, prior, doc>>

\* main: the for loop is over, "[DONE]" is printed.
Finish ==
    /\ pc = "loop"
    /\ idx > Len(files)
    /\ pc' = "done"
    /\ UNCHANGED <<files, skipExisting, idx, error, status, fs, prior, doc, rootLen, held>>

\* ----------------------------------------------------------------- inputs
\* The sequences over S of length at most n.
SeqsUpTo(S, n) == UNION {[1 .. k -> S] : k \in 0 .. n}

Blank == <<" ">>

\* Hand-picked elements of the shard read in Spec and SpecRun.
FullArticle ==
    Article(Node(<< <<"A", " ", "title">> >>),
            Abstract(<< Segment("Background", "", << <<"B.">> >>),
                        Segment("Results", "", << <<"R.">> >>) >>))
SomeMesh == MeshList(<< Heading(TRUE, "D001", <<"Humans">>),
                        Heading(TRUE, "", <<"Humans">>),
                        Heading(FALSE, "", <<>>) >>)
CitFull == Citation(<< <<"1">> >>, NoIdList, FullArticle, SomeMesh, << <<"kw">>, Blank >>)
CitPadded == Citation(<< <<" ", "1", " ">> >>, NoIdList, NoArticle, NoMesh, <<>>)
CitPlain ==
    Citation(<< <<"2">> >>, NoIdList,
             Article(NoNode, PlainAbstract(<< <<"plain">> >>)), NoMesh, <<>>)
CitFallback ==
    Citation(<<>>, IdList(<< ArticleId("doi", <<"x">>), ArticleId("pubmed", <<"5">>) >>),
             NoArticle, NoMesh, <<>>)
CitNoId == Citation(<<>>, NoIdList, FullArticle, NoMesh, <<>>)
CitBlankPmid ==
    Citation(<< Blank >>, IdList(<< ArticleId("pubmed", <<"6">>) >>),
             NoArticle, NoMesh, <<>>)

PipelineElems ==
    { CitFull, CitPadded, CitPlain, CitFallback, CitNoId, CitBlankPmid,
      DeleteCitation(<<>>), DeleteCitation(<< <<"3">> >>),
      DeleteCitation(<< <<" ", "4">>, <<"3">> >>),
      DeleteCitation(<< Blank, <<"3">> >>),
      Other(0), Other(2) }

RunElems == { CitFull, DeleteCitation(<< <<"3">> >>) }

\* The elements read one at a time in SpecElem.
PmidTexts == { <<>>, Blank, <<"1">>, <<" ", "1", " ">> }
ArticleIds ==
    { ArticleId(t, x) : t \in {"pubmed", "doi"}, x \in { <<>>, Blank, <<"7">> } }
IdLists == {NoIdList} \cup {IdList(ids) : ids \in SeqsUpTo(ArticleIds, MaxArticleIds)}
RichCitations ==
    { Citation(p, il, NoArticle, NoMesh, <<>>) :
        p \in SeqsUpTo(PmidTexts, MaxPmidKids), il \in IdLists }

DelTexts == { <<>>, Blank, <<"3">>, <<" ", "4">> }
RichDeletes == { DeleteCitation(p) : p \in SeqsUpTo(DelTexts, MaxDeleteKids) }

SegChunks == { <<>>, << <<"B.">> >>, << <<"R.">> >>, << <<" ", "x">>, Blank, <<"y", "\n">> >> }
\* The attributes <<Label, NlmCategory>> of an AbstractText.
SegAttrs ==
    { <<"", "">>, <<"Background", "">>, <<"Results", "">>, <<"UNASSIGNED", "METHODS">>,
      <<"", "METHODS">>, <<"", "UNASSIGNED">> }
Segments == { Segment(a[1], a[2], c) : a \in SegAttrs, c \in SegChunks }
Abstracts ==
    {NoAbstract}
      \cup {PlainAbstract(c) : c \in { <<>>, << <<"one">>, Blank, <<" ", "two">> >> }}
      \cup {Abstract(segs) : segs \in SeqsUpTo(Segments, MaxSegments) \ { <<>> }}
Articles == {NoArticle} \cup {Article(Node(<< <<"T">> >>), a) : a \in Abstracts}
AbstractCitations ==
    { Citation(<< <<"1">> >>, NoIdList, art, NoMesh, <<>>) : art \in Articles }

RichElems ==
    RichCitations \cup RichDeletes \cup AbstractCitations
      \cup {Other(SiblingBound), Other(SiblingBound + 1)}

\* The i-th element of the shard read in SpecMem: untouched siblings of
\* MemKids children each, every CitationEvery-th element a citation.
MemElem(i) == IF i % CitationEvery = 0 THEN CitPadded ELSE Other(MemKids)

\* An output directory holding nothing.
NoFiles == [p \in Paths |-> Absent]

\* --------------------------------------------------------- specifications
\* One shard, whose output path holds nothing, an empty file or the lines of
\* a prior run.
Init ==
    \E old \in {Absent, File(<<>>), File(PriorLines)} :
        InitRun(1, [NoFiles EXCEPT ![JsonlPath(1)] = old])

ReadPipeline == CanRead(MaxElems) /\ \E elem \in PipelineElems : ReadElement(elem)

Next ==
    \/ SkipShard
    \/ OpenShard
    \/ ReadPipeline
    \/ MeetDefect
    \/ FatalFailure
    \/ EndOfDocument
    \/ Finish

Spec == Init /\ [][Next]_vars

\* One shard of one element, drawn from the wide set: the extractor's
\* functions applied to each input.
InitElem == InitRun(1, NoFiles)

ReadRich == CanRead(1) /\ \E elem \in RichElems : ReadElement(elem)

NextElem ==
    \/ OpenShard
    \/ ReadRich
    \/ EndOfDocument

SpecElem == InitElem /\ [][NextElem]_vars

\* A run over up to MaxFiles shards.
InitRunAll ==
    \E n \in 0 .. MaxFiles :
        \E old \in {Absent, File(PriorLines)} :
            InitRun(n, [NoFiles EXCEPT ![JsonlPath(1)] = old])

ReadRun == CanRead(MaxElems) /\ \E elem \in RunElems : ReadElement(elem)

NextRun ==
    \/ SkipShard
    \/ OpenShard
    \/ ReadRun
    \/ MeetDefect
    \/ FatalFailure
    \/ EndOfDocument
    \/ Finish

SpecRun == InitRunAll /\ [][NextRun]_vars

\* One long shard of small elements.
ReadMem == CanRead(MemElems) /\ ReadElement(MemElem(Len(doc) + 1))

NextMem ==
    \/ OpenShard
    \/ ReadMem
    \/ EndOfDocument
    \/ Finish

SpecMem == InitElem /\ [][NextMem]_vars

\* ----------------------------------------------------------------- claims
TmpFile(f) == fs[TmpPath(JsonlPath(f))]
FinalFile(f) == fs[JsonlPath(f)]

\* The records a consumer reads from a file.
Recs(file) == [i \in 1 .. Len(file.lines) |-> ParseLine(file.lines[i])]

\* Shard files[idx] is open, or failed: its temporary file holds what the
\* run wrote for the elements of doc.
Reading == pc \in {"reading", "crashed"}

\* Shard files[idx - 1] was read to its end and renamed: doc is its document.
Promoted == pc \in {"loop", "done"} /\ idx > 1 /\ status[files[idx - 1]] = "ok"

\* The records written for the elements of doc.
OutRecs ==
    IF Reading THEN Recs(TmpFile(files[idx]))
    ELSE IF Promoted THEN Recs(FinalFile(files[idx - 1]))
    ELSE <<>>

NonBlank(text) == Strip(text) # <<>>

IsTombstone(rec) ==
    /\ rec.is_deleted = TRUE
    /\ rec.title = <<>> /\ rec.abstract = <<>> /\ rec.mesh_terms = <<>>
    /\ rec.keywords = <<>>

\* C1: atomicity of xml_gz_to_jsonl.  As long as a shard has not been read to
\* its end (pending, open, failed, skipped) the file at its final path is what
\* the run found there: absent, or the prior run's content.  The final path
\* changes only by the rename at the end, after which it exists and the
\* temporary file is gone.
C1_Atomicity ==
    \A f \in Shards :
        /\ status[f] # "ok" => FinalFile(f) = prior[JsonlPath(f)]
        /\ status[f] = "ok" => FinalFile(f).exists /\ ~TmpFile(f).exists

\* A shard failed fatally after lines were written, over a prior run's file.
C1_Witness ==
    /\ pc = "crashed" /\ error \in FatalKinds
    /\ TmpFile(files[idx]).lines # <<>>
    /\ prior[JsonlPath(files[idx])] = File(PriorLines)
    /\ FinalFile(files[idx]) = File(PriorLines)

\* C2: recoverable malformed markup does not abort the shard: the only
\* exceptions that end a shard are the fatal failures.
C2_DefectSkipped == pc = "crashed" => error \in FatalKinds

\* C3: a fatal failure of one shard leaves the run going: when the run is
\* over, no discovered shard is left unprocessed.
C3_OtherShardsProcessed ==
    pc \in {"done", "crashed"} => \A k \in 1 .. Len(files) : status[files[k]] # "pending"

\* C4 as stated: a DeleteCitation with k PMID children yields k tombstones,
\* whatever the children's text.
C4_OnePerChild ==
    (Reading /\ Len(doc) = 1 /\ doc[1].tag = "DeleteCitation")
      => /\ Len(OutRecs) = Len(doc[1].pmids)
         /\ \A i \in 1 .. Len(OutRecs) : IsTombstone(OutRecs[i])

\* C4 as amended: a DeleteCitation yields one tombstone per PMID child whose
\* text is not blank, in child order, with the trimmed text as pmid and docno,
\* is_deleted true and every other field empty.
C4_OnePerNonBlankChild ==
    (Reading /\ Len(doc) = 1 /\ doc[1].tag = "DeleteCitation")
      => LET ids == SelectSeq(doc[1].pmids, NonBlank)
         IN  /\ Len(OutRecs) = Len(ids)
             /\ \A i \in 1 .. Len(ids) :
                    /\ IsTombstone(OutRecs[i])
                    /\ OutRecs[i].pmid = Strip(ids[i])
                    /\ OutRecs[i].docno = Strip(ids[i])

\* A DeleteCitation with a blank child and two identifiers was read.
C4_Witness ==
    /\ Reading /\ Len(doc) = 1 /\ doc[1].tag = "DeleteCitation"
    /\ Len(doc[1].pmids) = 2
    /\ \E i \in 1 .. 2 : ~NonBlank(doc[1].pmids[i])
    /\ Len(OutRecs) = 1

\* An element in which no identifier can be found: no PMID child and no
\* pubmed ArticleId carries text that is not blank.
NoIdentifier(e) ==
    /\ \A i \in 1 .. Len(e.pmids) : ~NonBlank(e.pmids[i])
    /\ \A i \in 1 .. Len(e.idList.ids) :
           e.idList.ids[i].idType = "pubmed" => ~NonBlank(e.idList.ids[i].text)

\* C5: every record written has a non-empty pmid and docno = pmid; citations
\* without any identifier add no record (and the shard stays open).
C5_NonEmptyId ==
    (Reading \/ Promoted)
      => /\ \A i \in 1 .. Len(OutRecs) :
                OutRecs[i].pmid # <<>> /\ OutRecs[i].docno = OutRecs[i].pmid
         /\ (\A j \in 1 .. Len(doc) :
                doc[j].tag = "MedlineCitation" /\ NoIdentifier(doc[j]))
              => OutRecs = <<>>

\* A citation without identifier was read, then one with: one record.
C5_Witness ==
    /\ pc = "reading" /\ Len(doc) = 2
    /\ doc[1].tag = "MedlineCitation" /\ NoIdentifier(doc[1])
    /\ doc[2].tag = "MedlineCitation"
    /\ Len(OutRecs) = 1

\* A well-formed citation element: its direct PMID child carries an identifier.
WellFormed(e) ==
    e.tag = "MedlineCitation" /\ e.pmids # <<>> /\ NonBlank(e.pmids[1])

\* C6 as stated: a shard of well-formed citations gives one record per
\* citation, and no id twice.
C6_CountAndUnique ==
    (Promoted /\ \A j \in 1 .. Len(doc) : WellFormed(doc[j]))
      => /\ Len(OutRecs) = Len(doc)
         /\ \A i, j \in 1 .. Len(OutRecs) :
                i # j => OutRecs[i].pmid # OutRecs[j].pmid

\* C6 as amended: a shard of well-formed citations gives one record per
\* citation, the i-th with the trimmed identifier of the i-th citation; so the
\* ids are unique exactly when the citations' trimmed identifiers are.
C6_CountAndIds ==
    (Promoted /\ \A j \in 1 .. Len(doc) : WellFormed(doc[j]))
      => /\ Len(OutRecs) = Len(doc)
         /\ \A i \in 1 .. Len(doc) : OutRecs[i].pmid = Strip(doc[i].pmids[1])
         /\ (\A i, j \in 1 .. Len(doc) : i # j => OutRecs[i].pmid # OutRecs[j].pmid)
              <=> (\A i, j \in 1 .. Len(doc) :
                      i # j => Strip(doc[i].pmids[1]) # Strip(doc[j].pmids[1]))

\* Two well-formed citations whose identifiers differ only by padding.
C6_Witness ==
    /\ Promoted /\ Len(doc) = 2
    /\ WellFormed(doc[1]) /\ WellFormed(doc[2])
    /\ doc[1].pmids[1] # doc[2].pmids[1]
    /\ Len(OutRecs) = 2 /\ OutRecs[1].pmid = OutRecs[2].pmid

\* C7: after every event the nodes held in the tree are at most the open
\* root, the subtree of the event's element and SiblingBound more.
C7_MemoryBound ==
    (pc = "reading" /\ doc # <<>>)
      => held <= 1 + Size(doc[Len(doc)]) + SiblingBound

\* C8: the identifier is the direct PMID child's, or, when that child is
\* absent or empty, the pubmed ArticleId's; the record is dropped only if
\* both are empty.
C8_FallbackWhenPrimaryEmpty ==
    (Reading /\ Len(doc) = 1 /\ doc[1].tag = "MedlineCitation")
      => LET e == doc[1]
             primary == IF e.pmids # <<>> THEN Strip(e.pmids[1]) ELSE <<>>
             pub == SelectSeq(e.idList.ids, IsPubmedId)
             fallback == IF pub # <<>> THEN Strip(pub[1].text) ELSE <<>>
             id == IF primary # <<>> THEN primary ELSE fallback
         IN  IF id = <<>> THEN OutRecs = <<>>
             ELSE Len(OutRecs) = 1 /\ OutRecs[1].pmid = id

\* The records the elements of d give, in the order the elements close: a
\* citation its record, if any; a deletion list one tombstone per identifier,
\* in child order.
RECURSIVE ExpectedRecords(_)
ExpectedRecords(d) ==
    IF d = <<>> THEN <<>>
    ELSE LET e == d[Len(d)]
             ids == SelectSeq(e.pmids, NonBlank)
         IN  ExpectedRecords(SubSeq(d, 1, Len(d) - 1))
               \o (IF e.tag = "MedlineCitation" THEN ParseArticleRecord(e)
                   ELSE IF e.tag = "DeleteCitation"
                     THEN [i \in 1 .. Len(ids) |->
                             Record(Strip(ids[i]), <<>>, <<>>, <<>>, <<>>, TRUE)]
                   ELSE <<>>)

\* C9: the lines of the shard's file are the records of its elements in
\* document order, none moved, repeated or left out.
C9_DocumentOrder == (Reading \/ Promoted) => OutRecs = ExpectedRecords(doc)

\* A deletion list of two identifiers, then a citation: three lines.
C9_Witness ==
    /\ Promoted /\ Len(doc) = 2
    /\ doc[1].tag = "DeleteCitation" /\ doc[2].tag = "MedlineCitation"
    /\ Len(OutRecs) = 3
    /\ OutRecs[1].pmid # OutRecs[2].pmid

\* The lines of two or more segments: per segment its label, unless empty or
\* UNASSIGNED, and then its flattened text.
RECURSIVE SegmentLines(_)
SegmentLines(segs) ==
    IF segs = <<>> THEN <<>>
    ELSE LET a == Head(segs)
         IN  (IF SegLabel(a) \in { <<>>, <<"UNASSIGNED">> } THEN <<>> ELSE <<SegLabel(a)>>)
               \o <<Stringify(Node(a.chunks))>>
               \o SegmentLines(Tail(segs))

\* The article of a citation read alone whose record was written.
AbstractCase ==
    /\ Reading /\ Len(doc) = 1 /\ doc[1].tag = "MedlineCitation"
    /\ doc[1].article.present /\ Len(OutRecs) = 1

\* C10 as stated: no segment, the flattened Abstract; one segment, that
\* segment flattened; two or more, every segment's label and text, joined
\* with newlines.
C10_LabelAndTextPerSegment ==
    AbstractCase
      => LET abs == doc[1].article.abstract
         IN  OutRecs[1].abstract =
               IF abs.segs = <<>>
                 THEN Stringify([present |-> abs.present, chunks |-> abs.chunks])
               ELSE IF Len(abs.segs) = 1 THEN Stringify(Node(abs.segs[1].chunks))
               ELSE Join(<<"\n">>, SegmentLines(abs.segs))

TheScenario ==
    << Segment("Background", "", << <<"B.">> >>), Segment("Results", "", << <<"R.">> >>) >>

\* C10 as amended: as stated, but with two or more segments the label is
\* Label or else NlmCategory, a segment whose flattened text is empty gives no
\* line, and the joined text is trimmed.
C10_NonEmptyLabelAndText ==
    AbstractCase
      => LET abs == doc[1].article.abstract
         IN  /\ OutRecs[1].abstract =
                  IF abs.segs = <<>>
                    THEN Stringify([present |-> abs.present, chunks |-> abs.chunks])
                  ELSE IF Len(abs.segs) = 1 THEN Stringify(Node(abs.segs[1].chunks))
                  ELSE Strip(Join(<<"\n">>, SelectSeq(SegmentLines(abs.segs), NonBlank)))
             /\ abs.segs = TheScenario
                  => OutRecs[1].abstract =
                       <<"Background", "\n", "B.", "\n", "Results", "\n", "R.">>

\* A labelled segment without text next to one with text.
C10_Witness ==
    /\ AbstractCase
    /\ Len(doc[1].article.abstract.segs) = 2
    /\ doc[1].article.abstract.segs[1].label = "Background"
    /\ doc[1].article.abstract.segs[1].chunks = <<>>
    /\ OutRecs[1].abstract = <<"Background", "\n", "R.">>

=============================================================================
